---------------------------- MODULE Spec2Model ----------------------------
(***************************************************************************)
(* Model of the Jenkins -> Discord webhook relay (src/main.go).            *)
(*                                                                         *)
(* src/main.go holds two variants of the program: the flat variant (lines  *)
(* 1-301, inbound record buildName/buildUrl/buildVars/event/projectName)   *)
(* and the nested variant (lines 303-634, inbound record with a "build"    *)
(* object).  The server (main, the handler, sendToDiscord) is the same in  *)
(* both; it is modelled once, with the nested variant's translator.        *)
(*                                                                         *)
(* Text is modelled as sequences of one-character strings wherever the     *)
(* code inspects characters (PORT, buildVars, the rendered duration);      *)
(* the int64 duration is kept as four 16-bit limbs of its two's complement *)
(* so that the 64-bit wrap of time.Duration arithmetic is computed.        *)
(***************************************************************************)
EXTENDS Integers, Sequences, FiniteSets, TLC

VARIABLES
    mainPc,      \* position of main(): "getenv", "port", "setup", "start", "serving", "exited"
    env,         \* process environment: DISCORD_WEBHOOK_URL, JENKINS_URL, PORT
    port,        \* main's local variable port (characters)
    handler,     \* the *WebhookHandler built by NewWebhookHandler, or Nil
    routes,      \* routes registered on the echo instance
    listening,   \* TRUE once e.Start has bound the listener
    reqs,        \* per inbound request: position of its handler goroutine and its locals
    outbound,    \* every POST handed to client.Do, in order
    now,         \* wall clock (seconds), read by time.Now()
    fpTieUp,     \* direction of the float64 representation error at a decimal tie
    trace        \* calls of the translator's functions made so far: [fn, arg, ret, at]

serverVars == <<mainPc, env, port, handler, routes, listening, reqs, outbound>>
pureVars == <<now, trace>>
vars == <<mainPc, env, port, handler, routes, listening, reqs, outbound, now, fpTieUp, trace>>

\* the absent value of a record (a nil pointer, a local not yet assigned) and of an error
Nil == [nil |-> TRUE]
NoError == <<>>

(***************************************************************************)
(* int64.  A value is <<l0, l1, l2, l3>>, the four 16-bit limbs of its     *)
(* two's complement, least significant first; arithmetic is modulo 2^64    *)
(* as Go's is.                                                             *)
(***************************************************************************)
Limb == 65536

\* x + y mod 2^64
Add64(x, y) ==
    LET t0 == x[1] + y[1]
        t1 == x[2] + y[2] + (t0 \div Limb)
        t2 == x[3] + y[3] + (t1 \div Limb)
        t3 == x[4] + y[4] + (t2 \div Limb)
    IN  <<t0 % Limb, t1 % Limb, t2 % Limb, t3 % Limb>>

\* x * m mod 2^64, for 0 <= m < 2^15
MulSmall(x, m) ==
    LET t0 == x[1] * m
        t1 == x[2] * m + (t0 \div Limb)
        t2 == x[3] * m + (t1 \div Limb)
        t3 == x[4] * m + (t2 \div Limb)
    IN  <<t0 % Limb, t1 % Limb, t2 % Limb, t3 % Limb>>

\* -x mod 2^64
Neg64(x) ==
    Add64(<<Limb - 1 - x[1], Limb - 1 - x[2], Limb - 1 - x[3], Limb - 1 - x[4]>>,
          <<1, 0, 0, 0>>)

IsNeg(x) == x[4] >= Limb \div 2

IsZero(x) == x = <<0, 0, 0, 0>>

\* |x| as an unsigned 64-bit value
Mag(x) == IF IsNeg(x) THEN Neg64(x) ELSE x

\* unsigned x divided by m, 0 < m < 2^15: [q, r]
DivSmall(x, m) ==
    LET c3 == x[4]
        c2 == (c3 % m) * Limb + x[3]
        c1 == (c2 % m) * Limb + x[2]
        c0 == (c1 % m) * Limb + x[1]
    IN  [q |-> <<c0 \div m, c1 \div m, c2 \div m, c3 \div m>>, r |-> c0 % m]

\* the int64 of an integer of the model, |n| < 2^31
Int64(n) ==
    IF n >= 0 THEN <<n % Limb, n \div Limb, 0, 0>>
    ELSE Neg64(<<(-n) % Limb, (-n) \div Limb, 0, 0>>)

Times1e6(x) == MulSmall(MulSmall(x, 1000), 1000)

\* the int64 a * 10^12 + b * 10^6 + c, for writing down large durations
Int64Of(a, b, c) ==
    Add64(Times1e6(Add64(Times1e6(Int64(a)), Int64(b))), Int64(c))

\* decimal digits of an unsigned value, most significant first
RECURSIVE Decimal(_)
Decimal(x) ==
    IF x[2] = 0 /\ x[3] = 0 /\ x[4] = 0 /\ x[1] < 10 THEN <<x[1]>>
    ELSE LET qr == DivSmall(x, 10) IN Append(Decimal(qr.q), qr.r)

(***************************************************************************)
(* formatDuration (nested variant).  The rendered text is a sequence of    *)
(* characters.                                                             *)
(***************************************************************************)
DigitChar(d) == <<"0", "1", "2", "3", "4", "5", "6", "7", "8", "9">>[d + 1]

RECURSIVE DigitChars(_)
DigitChars(s) == IF s = <<>> THEN <<>> ELSE <<DigitChar(s[1])>> \o DigitChars(Tail(s))

\* a non-negative d (in ns) is at least c seconds: d.Hours() >= 1 with c = 3600,
\* d.Minutes() >= 1 with c = 60
AtLeast(d, c) ==
    LET secs == DivSmall(DivSmall(DivSmall(d, 10000).q, 10000).q, 10).q
    IN  ~IsZero(DivSmall(secs, c).q)

(* fmt.Sprintf("%.1f", x) for x = mag / (c * 10^9), mag in ns: the tenths   *)
(* of x, as an unsigned value.  The quotient is a float64 (Duration.Hours,  *)
(* Minutes, Seconds); it rounds like the exact quotient unless x lies       *)
(* exactly half-way between two tenths.  A half-way x that float64          *)
(* represents exactly (k + 0.25, k + 0.75) rounds to the even tenth; any    *)
(* other half-way x is not representable, and the direction of its          *)
(* representation error, fpTieUp, decides.                                  *)
Tenths(mag, c) ==
    LET d1 == DivSmall(mag, 10000)
        d2 == DivSmall(d1.q, 10000)
        d3 == DivSmall(d2.q, c)
        q == d3.q                                \* floor(mag / (c * 10^8))
        lo == d2.r * 10000 + d1.r                \* mag mod 10^8
        twice == 2 * d3.r + ((2 * lo) \div 100000000)
        rest == (2 * lo) % 100000000
        last == DivSmall(q, 10).r
        tie == twice = c /\ rest = 0
        up == IF tie
              THEN IF last % 5 = 2 THEN last % 2 = 1 ELSE fpTieUp
              ELSE twice > c \/ (twice = c /\ rest > 0)
    IN  IF up THEN Add64(q, <<1, 0, 0, 0>>) ELSE q

Fixed1(neg, tenths) ==
    LET dec == Decimal(tenths)
        n == Len(dec)
        whole == IF n > 1 THEN SubSeq(dec, 1, n - 1) ELSE <<0>>
    IN  (IF neg THEN <<"-">> ELSE <<>>) \o DigitChars(whole)
            \o <<".", DigitChar(dec[n])>>

formatDuration(duration) ==
    IF IsZero(duration) THEN <<"N", "/", "A">>
    ELSE LET d == Times1e6(duration)   \* time.Duration(duration) * time.Millisecond
         IN  IF ~IsNeg(d) /\ AtLeast(d, 3600)
             THEN Fixed1(FALSE, Tenths(d, 3600)) \o <<"h">>
             ELSE IF ~IsNeg(d) /\ AtLeast(d, 60)
             THEN Fixed1(FALSE, Tenths(d, 60)) \o <<"m">>
             ELSE Fixed1(IsNeg(d), Tenths(Mag(d), 1)) \o <<"s">>


(***************************************************************************)
(* The translator, nested variant (src/main.go:415-539).                   *)
(* The emoji of the labels are written as their Discord short codes.       *)
(***************************************************************************)
Green == 65280        \* 0x00FF00
Red == 16711680       \* 0xFF0000
Orange == 16753920    \* 0xFFA500
Gray == 8421504       \* 0x808080
Blue == 39423         \* 0x0099FF

getStatusColor(result, status) ==
    \* Check result first, then status
    CASE result = "SUCCESS" -> Green
      [] result = "FAILURE" -> Red
      [] result = "UNSTABLE" -> Orange
      [] result = "ABORTED" -> Gray
      [] OTHER ->
            \* If no result, check status
            CASE status = "STARTED" -> Blue
              [] status = "COMPLETED" -> Green
              [] OTHER -> Gray

getStatusText(result, status) ==
    IF result # ""
    THEN CASE result = "SUCCESS" -> ":white_check_mark: Success"
           [] result = "FAILURE" -> ":x: Failure"
           [] result = "UNSTABLE" -> ":warning: Unstable"
           [] result = "ABORTED" -> ":octagonal_sign: Aborted"
           [] OTHER -> result
    ELSE CASE status = "STARTED" -> ":arrows_counterclockwise: Started"
           [] status = "COMPLETED" -> ":white_check_mark: Completed"
           [] OTHER -> status

\* Go's integer division truncates toward zero
TruncDiv(a, b) == IF a >= 0 THEN a \div b ELSE -((-a) \div b)

\* time.Unix(ms/1000, 0).Format(time.RFC3339): the instant, rendered in the
\* process's local zone
FormatUnix(ms) == [unix |-> TruncDiv(ms, 1000), zone |-> env.TZ]

\* time.Now().Format(time.RFC3339)
FormatNow == [unix |-> now, zone |-> env.TZ]

\* a translator that appends the Cause field whenever the build has a result
convertToDiscordPayloadCauseByResult(jenkins) ==
    LET fields == <<
            [name |-> "Build Number", value |-> <<"#", jenkins.build.number>>,
             inline |-> TRUE],
            [name |-> "Status",
             value |-> getStatusText(jenkins.build.result, jenkins.build.status),
             inline |-> TRUE],
            [name |-> "Duration", value |-> formatDuration(jenkins.build.duration),
             inline |-> TRUE],
            [name |-> "Phase", value |-> jenkins.build.phase, inline |-> TRUE] >>
        fields2 == IF jenkins.build.result # ""
                   THEN Append(fields, [name |-> "Cause", value |-> jenkins.build.cause,
                                        inline |-> FALSE])
                   ELSE fields
    IN  [content |-> "",
         embeds |-> << [title |-> <<jenkins.displayName, " - Build #", jenkins.build.number>>,
                        description |-> jenkins.build.fullDisplayName,
                        url |-> jenkins.build.url,
                        color |-> getStatusColor(jenkins.build.result, jenkins.build.status),
                        fields |-> fields2,
                        timestamp |-> FormatUnix(jenkins.build.timestamp),
                        footer |-> [text |-> "Jenkins CI/CD"]] >>]

\* a translator that stamps the card with the time of the call, as the flat variant does
convertToDiscordPayloadStampsNow(jenkins) ==
    LET fields == <<
            [name |-> "Build Number", value |-> <<"#", jenkins.build.number>>,
             inline |-> TRUE],
            [name |-> "Status",
             value |-> getStatusText(jenkins.build.result, jenkins.build.status),
             inline |-> TRUE],
            [name |-> "Duration", value |-> formatDuration(jenkins.build.duration),
             inline |-> TRUE],
            [name |-> "Phase", value |-> jenkins.build.phase, inline |-> TRUE] >>
        fields2 == IF jenkins.build.cause # ""
                   THEN Append(fields, [name |-> "Cause", value |-> jenkins.build.cause,
                                        inline |-> FALSE])
                   ELSE fields
    IN  [content |-> "",
         embeds |-> << [title |-> <<jenkins.displayName, " - Build #", jenkins.build.number>>,
                        description |-> jenkins.build.fullDisplayName,
                        url |-> jenkins.build.url,
                        color |-> getStatusColor(jenkins.build.result, jenkins.build.status),
                        fields |-> fields2,
                        timestamp |-> FormatNow,
                        footer |-> [text |-> "Jenkins CI/CD"]] >>]

convertToDiscordPayload(jenkins) ==
    LET color == getStatusColor(jenkins.build.result, jenkins.build.status)
        timestamp == FormatUnix(jenkins.build.timestamp)
        duration == formatDuration(jenkins.build.duration)
        fields == <<
            [name |-> "Build Number", value |-> <<"#", jenkins.build.number>>,
             inline |-> TRUE],
            [name |-> "Status",
             value |-> getStatusText(jenkins.build.result, jenkins.build.status),
             inline |-> TRUE],
            [name |-> "Duration", value |-> duration, inline |-> TRUE],
            [name |-> "Phase", value |-> jenkins.build.phase, inline |-> TRUE] >>
        \* Add cause if available
        fields2 == IF jenkins.build.cause # ""
                   THEN Append(fields, [name |-> "Cause", value |-> jenkins.build.cause,
                                        inline |-> FALSE])
                   ELSE fields
        embed == [title |-> <<jenkins.displayName, " - Build #", jenkins.build.number>>,
                  description |-> jenkins.build.fullDisplayName,
                  url |-> jenkins.build.url,
                  color |-> color,
                  fields |-> fields2,
                  timestamp |-> timestamp,
                  footer |-> [text |-> "Jenkins CI/CD"]]
    IN  [content |-> "", embeds |-> <<embed>>]

(***************************************************************************)
(* Process configuration and main (src/main.go:589-634).                   *)
(***************************************************************************)
Digits == {"0", "1", "2", "3", "4", "5", "6", "7", "8", "9"}

DigitValue(c) == CHOOSE d \in 0..9 : DigitChar(d) = c

RECURSIVE DecimalValue(_)
DecimalValue(s) ==
    IF s = <<>> THEN 0
    ELSE DecimalValue(SubSeq(s, 1, Len(s) - 1)) * 10 + DigitValue(s[Len(s)])

\* a parser that stops at the first non-digit, as C's atoi does
RECURSIVE LeadingDigits(_)
LeadingDigits(s) ==
    IF s # <<>> /\ s[1] \in Digits THEN <<s[1]>> \o LeadingDigits(Tail(s)) ELSE <<>>

AtoiLenient(s) ==
    IF LeadingDigits(s) = <<>> THEN [err |-> TRUE, val |-> 0]
    ELSE [err |-> FALSE, val |-> DecimalValue(LeadingDigits(s))]

\* strconv.Atoi: an optional sign, then one or more decimal digits
Atoi(s) ==
    LET signed == s # <<>> /\ s[1] \in {"+", "-"}
        body == IF signed THEN Tail(s) ELSE s
    IN  IF body = <<>> \/ \E i \in 1..Len(body) : body[i] \notin Digits
        THEN [err |-> TRUE, val |-> 0]
        ELSE [err |-> FALSE,
              val |-> IF signed /\ s[1] = "-" THEN -DecimalValue(body)
                      ELSE DecimalValue(body)]

DefaultPort == <<"8", "0", "8", "0">>

\* the values DISCORD_WEBHOOK_URL takes; os.Getenv gives "" for an unset variable
ValidURL == "https://discord.example/api/webhooks/1/token"
MalformedURL == "http://[::1"
DiscordURLs == {"", ValidURL, MalformedURL}

\* the values PORT takes (characters); <<>> is unset
PortSettings ==
    { <<>>, <<"8", "0", "8", "0">>, <<"+", "8", "0">>, <<"-", "1">>,
      <<"7", "0", "0", "0", "0">>, <<"8", "0", "x">>, <<"h", "t", "t", "p">>, <<"-">> }

Zones == {"UTC", "Asia/Jakarta"}

Environments ==
    [DISCORD_WEBHOOK_URL : DiscordURLs, JENKINS_URL : {"", "http://jenkins.example"},
     PORT : PortSettings, TZ : Zones]

NewWebhookHandler(discordURL, jenkinsURL) ==
    [client |-> [timeout |-> 30], discordURL |-> discordURL, jenkinsURL |-> jenkinsURL]

Routes == {"POST /webhook/jenkins", "POST /webhook/print", "GET /health"}

\* net.Listen(":" + port), reached from e.Start: the port must be in 0..65535
CanBind(p) == ~Atoi(p).err /\ Atoi(p).val \in 0..65535

\* discordURL := os.Getenv(...); if discordURL == "" { log.Fatal(...) }
MainGetenv ==
    /\ mainPc = "getenv"
    /\ mainPc' = IF env.DISCORD_WEBHOOK_URL = "" THEN "exited" ELSE "port"
    /\ UNCHANGED <<env, port, handler, routes, listening, reqs, outbound, now, fpTieUp, trace>>

\* port := os.Getenv("PORT"), defaulted to "8080", validated with strconv.Atoi
MainPort ==
    /\ mainPc = "port"
    /\ LET p == IF env.PORT = <<>> THEN DefaultPort ELSE env.PORT
       IN  /\ port' = p
           /\ mainPc' = IF Atoi(p).err THEN "exited" ELSE "setup"
    /\ UNCHANGED <<env, handler, routes, listening, reqs, outbound, now, fpTieUp, trace>>

\* echo.New, the middleware, NewWebhookHandler and the three routes
MainSetup ==
    /\ mainPc = "setup"
    /\ handler' = NewWebhookHandler(env.DISCORD_WEBHOOK_URL, env.JENKINS_URL)
    /\ routes' = Routes
    /\ mainPc' = "start"
    /\ UNCHANGED <<env, port, listening, reqs, outbound, now, fpTieUp, trace>>

\* e.Start(":" + port): the listener is bound, or e.Start fails and log.Fatalf ends
\* the process
MainStart(bound) ==
    /\ mainPc = "start"
    /\ bound => CanBind(port)
    /\ listening' = bound
    /\ mainPc' = IF bound THEN "serving" ELSE "exited"
    /\ UNCHANGED <<env, port, handler, routes, reqs, outbound, now, fpTieUp, trace>>

(***************************************************************************)
(* The /webhook/jenkins handler and delivery (src/main.go:394-413,         *)
(* 541-566).  The handler blocks in client.Do; other requests' goroutines  *)
(* run meanwhile, so it is two steps: up to the call of client.Do, and     *)
(* from its return to the response.                                        *)
(***************************************************************************)
MaxRequests == 2

Requests == 1..MaxRequests

\* the README's sample payload, and a build that has just started
SampleEvent ==
    [name |-> "my-project", url |-> "job/my-project/", displayName |-> "my-project",
     build |-> [fullDisplayName |-> "my-project #42", number |-> 42,
                timestamp |-> 1640995200, result |-> "SUCCESS",
                duration |-> Int64(125000), url |-> "job/my-project/42/",
                cause |-> "Started by user admin", phase |-> "COMPLETED",
                status |-> "SUCCESS"]]

StartedEvent ==
    [name |-> "other", url |-> "", displayName |-> "",
     build |-> [fullDisplayName |-> "", number |-> 7, timestamp |-> -1500,
                result |-> "", duration |-> Int64(0), url |-> "", cause |-> "",
                phase |-> "STARTED", status |-> "STARTED"]]

ServedEvents == {SampleEvent, StartedEvent}

\* request bodies: JSON that decodes into a JenkinsWebhook, or that does not
Bodies == {[decodes |-> FALSE, text |-> "{\"build\": 42"]}
              \cup {[decodes |-> TRUE, event |-> e] : e \in ServedEvents}

\* c.Bind(&payload)
Bind(body) ==
    IF body.decodes THEN [err |-> NoError, payload |-> body.event]
    ELSE [err |-> <<"unexpected EOF", body.text>>, payload |-> Nil]

\* what client.Do can return: a response with a status code, or an error
StatusCodes == {199, 200, 204, 299, 300, 404, 500}
Outcomes == {[kind |-> "response", status |-> c] : c \in StatusCodes}
                \cup {[kind |-> "error", text |-> t] :
                        t \in {"context deadline exceeded", "connection refused"}}

\* c.JSON(code, body)
JSON(code, body) == [status |-> code, body |-> body]

NoResponse == [status |-> 0, body |-> Nil]

\* encoding/json with the structs' omitempty tags
OmitEmpty(rec, keys) ==
    [k \in DOMAIN rec \ {x \in keys : rec[x] = ""} |-> rec[k]]

MarshalField(f) ==
    IF f.inline THEN f ELSE [k \in {"name", "value"} |-> f[k]]

MarshalEmbed(e) ==
    OmitEmpty([e EXCEPT !.fields = [i \in DOMAIN e.fields |-> MarshalField(e.fields[i])]],
              {"description", "url"})

Marshal(payload) ==
    OmitEmpty([payload EXCEPT !.embeds =
                    [i \in DOMAIN payload.embeds |-> MarshalEmbed(payload.embeds[i])]],
              {"content"})

\* http.NewRequest("POST", w.discordURL, ...) fails when the URL does not parse
NewRequest(url, data) ==
    IF url = MalformedURL
    THEN [err |-> <<"error creating request", url>>, req |-> Nil]
    ELSE [err |-> NoError,
          req |-> [method |-> "POST", url |-> url,
                   contentType |-> "application/json", body |-> data]]

\* resp.StatusCode < 200 || resp.StatusCode >= 300
StatusIsFailureOffByOne(code) == code < 200 \/ code > 300

StatusIsFailure(code) == code < 200 \/ code >= 300

\* the error sendToDiscord returns once client.Do has returned outcome
sendToDiscordResult(outcome) ==
    IF outcome.kind = "error" THEN <<"error sending request", outcome.text>>
    ELSE IF StatusIsFailure(outcome.status)
    THEN <<"discord API returned status", outcome.status>>
    ELSE NoError

\* the handler's two ways out after sendToDiscord
DeliveryResponse(err) ==
    IF err # NoError THEN JSON(500, [error |-> "Failed to send to Discord"])
    ELSE JSON(200, [status |-> "success"])

IdleRequest ==
    [pc |-> "idle", body |-> Nil, payload |-> Nil, discordPayload |-> Nil,
     outcome |-> Nil, err |-> NoError, response |-> NoResponse]

\* a handler that keeps the marshalled payload in a buffer shared by all requests:
\* a request that starts while another is being delivered sends that one's bytes
HandleJenkinsWebhookSharedBuffer(r, body) ==
    /\ listening
    /\ "POST /webhook/jenkins" \in routes
    /\ reqs[r].pc = "idle"
    /\ LET bound == Bind(body)
           discordPayload == convertToDiscordPayload(bound.payload)
           busy == {i \in DOMAIN outbound : reqs[outbound[i].by].pc = "sending"}
           data == IF busy = {} THEN Marshal(discordPayload)
                   ELSE outbound[CHOOSE i \in busy : TRUE].req.body
           made == NewRequest(handler.discordURL, data)
       IN  IF bound.err # NoError
           THEN /\ reqs' = [reqs EXCEPT ![r] =
                       [IdleRequest EXCEPT !.pc = "done", !.body = body,
                            !.err = bound.err,
                            !.response = JSON(400, [error |-> "Invalid payload"])]]
                /\ UNCHANGED outbound
           ELSE IF made.err # NoError
           THEN /\ reqs' = [reqs EXCEPT ![r] =
                       [IdleRequest EXCEPT !.pc = "done", !.body = body,
                            !.payload = bound.payload,
                            !.discordPayload = discordPayload,
                            !.err = made.err,
                            !.response = DeliveryResponse(made.err)]]
                /\ UNCHANGED outbound
           ELSE /\ reqs' = [reqs EXCEPT ![r] =
                       [IdleRequest EXCEPT !.pc = "sending", !.body = body,
                            !.payload = bound.payload,
                            !.discordPayload = discordPayload]]
                /\ outbound' = Append(outbound, [by |-> r, req |-> made.req])
    /\ UNCHANGED <<mainPc, env, port, handler, routes, listening, now, fpTieUp, trace>>

\* HandleJenkinsWebhook, up to the call of client.Do inside sendToDiscord
HandleJenkinsWebhook(r, body) ==
    /\ listening
    /\ "POST /webhook/jenkins" \in routes
    /\ reqs[r].pc = "idle"
    /\ LET bound == Bind(body)
           discordPayload == convertToDiscordPayload(bound.payload)
           made == NewRequest(handler.discordURL, Marshal(discordPayload))
       IN  IF bound.err # NoError
           THEN /\ reqs' = [reqs EXCEPT ![r] =
                       [IdleRequest EXCEPT !.pc = "done", !.body = body,
                            !.err = bound.err,
                            !.response = JSON(400, [error |-> "Invalid payload"])]]
                /\ UNCHANGED outbound
           ELSE IF made.err # NoError
           THEN /\ reqs' = [reqs EXCEPT ![r] =
                       [IdleRequest EXCEPT !.pc = "done", !.body = body,
                            !.payload = bound.payload,
                            !.discordPayload = discordPayload,
                            !.err = made.err,
                            !.response = DeliveryResponse(made.err)]]
                /\ UNCHANGED outbound
           ELSE /\ reqs' = [reqs EXCEPT ![r] =
                       [IdleRequest EXCEPT !.pc = "sending", !.body = body,
                            !.payload = bound.payload,
                            !.discordPayload = discordPayload]]
                /\ outbound' = Append(outbound, [by |-> r, req |-> made.req])
    /\ UNCHANGED <<mainPc, env, port, handler, routes, listening, now, fpTieUp, trace>>

\* a handler that sends the payload again when the delivery failed
ClientDoReturnsRetry(r, outcome) ==
    /\ reqs[r].pc = "sending"
    /\ LET err == sendToDiscordResult(outcome)
           mine == {i \in DOMAIN outbound : outbound[i].by = r}
       IN  IF err # NoError /\ Cardinality(mine) < 2
           THEN /\ outbound' = Append(outbound, outbound[CHOOSE i \in mine : TRUE])
                /\ UNCHANGED reqs
           ELSE /\ reqs' = [reqs EXCEPT ![r] =
                       [@ EXCEPT !.pc = "done", !.outcome = outcome, !.err = err,
                                 !.response = DeliveryResponse(err)]]
                /\ UNCHANGED outbound
    /\ UNCHANGED <<mainPc, env, port, handler, routes, listening, now, fpTieUp, trace>>

\* client.Do returns; sendToDiscord maps the outcome to an error; the handler responds
ClientDoReturns(r, outcome) ==
    /\ reqs[r].pc = "sending"
    /\ LET err == sendToDiscordResult(outcome)
       IN  reqs' = [reqs EXCEPT ![r] =
                       [@ EXCEPT !.pc = "done", !.outcome = outcome, !.err = err,
                                 !.response = DeliveryResponse(err)]]
    /\ UNCHANGED <<mainPc, env, port, handler, routes, listening, outbound, now,
                   fpTieUp, trace>>

Init ==
    /\ mainPc = "getenv"
    /\ env \in Environments
    /\ port = <<>>
    /\ handler = Nil
    /\ routes = {}
    /\ listening = FALSE
    /\ reqs = [r \in Requests |-> IdleRequest]
    /\ outbound = <<>>
    /\ now = 0
    /\ fpTieUp \in BOOLEAN
    /\ trace = <<>>

Next ==
    \/ MainGetenv
    \/ MainPort
    \/ MainSetup
    \/ \E bound \in BOOLEAN : MainStart(bound)
    \/ \E r \in Requests, body \in Bodies : HandleJenkinsWebhook(r, body)
    \/ \E r \in Requests, outcome \in Outcomes : ClientDoReturns(r, outcome)

Spec == Init /\ [][Next]_vars

(***************************************************************************)
(* The translator, flat variant (src/main.go:94-206).  buildVars and the   *)
(* text made from it are sequences of characters.                          *)
(***************************************************************************)
getEventColor(event) ==
    CASE event = "success" -> Green
      [] event \in {"failure", "failed"} -> Red
      [] event = "unstable" -> Orange
      [] event = "aborted" -> Gray
      [] event = "started" -> Blue
      [] OTHER -> Gray

getEventText(event) ==
    CASE event = "success" -> ":white_check_mark: Success"
      [] event \in {"failure", "failed"} -> ":x: Failure"
      [] event = "unstable" -> ":warning: Unstable"
      [] event = "aborted" -> ":octagonal_sign: Aborted"
      [] event = "started" -> ":arrows_counterclockwise: Started"
      [] OTHER -> event

RECURSIVE TrimLeft(_, _)
TrimLeft(s, cutset) ==
    IF s # <<>> /\ s[1] \in cutset THEN TrimLeft(Tail(s), cutset) ELSE s

RECURSIVE TrimRight(_, _)
TrimRight(s, cutset) ==
    IF s # <<>> /\ s[Len(s)] \in cutset
    THEN TrimRight(SubSeq(s, 1, Len(s) - 1), cutset) ELSE s

\* strings.Trim(s, cutset): every leading and trailing character of cutset
Trim(s, cutset) == TrimRight(TrimLeft(s, cutset), cutset)

\* strings.TrimSpace
Space == {" ", "\t", "\n", "\r"}
TrimSpace(s) == Trim(s, Space)

\* strings.Index: the first position of sep in s, 0 when there is none
Index(s, sep) ==
    LET at == {i \in 1..(Len(s) - Len(sep) + 1) : SubSeq(s, i, i + Len(sep) - 1) = sep}
    IN  IF at = {} THEN 0 ELSE CHOOSE i \in at : \A j \in at : i <= j

\* strings.Split(s, sep), for a non-empty sep
RECURSIVE Split(_, _)
Split(s, sep) ==
    LET i == Index(s, sep)
    IN  IF i = 0 THEN <<s>>
        ELSE <<SubSeq(s, 1, i - 1)>> \o Split(SubSeq(s, i + Len(sep), Len(s)), sep)

\* strings.SplitN(s, sep, 2)
SplitN2(s, sep) ==
    LET i == Index(s, sep)
    IN  IF i = 0 THEN <<s>>
        ELSE <<SubSeq(s, 1, i - 1), SubSeq(s, i + Len(sep), Len(s))>>

\* strings.Join
RECURSIVE Join(_, _)
Join(list, sep) ==
    IF list = <<>> THEN <<>>
    ELSE IF Len(list) = 1 THEN list[1]
    ELSE list[1] \o sep \o Join(Tail(list), sep)

\* a variant of the loop that cuts an entry at its last "=" instead of its first
RECURSIVE FormatEntriesLastEquals(_)
FormatEntriesLastEquals(entries) ==
    IF entries = <<>> THEN <<>>
    ELSE LET e == entries[1]
             at == {i \in 1..Len(e) : e[i] = "="}
             rest == FormatEntriesLastEquals(Tail(entries))
         IN  IF at # {}
             THEN LET q == CHOOSE i \in at : \A j \in at : j <= i
                  IN  <<(<<"*", "*">> \o TrimSpace(SubSeq(e, 1, q - 1))
                            \o <<"*", "*", ":", " ">>
                            \o TrimSpace(SubSeq(e, q + 1, Len(e))))>> \o rest
             ELSE rest

\* the loop of formatBuildVars: one "**key**: value" per entry that has an "="
RECURSIVE FormatEntries(_)
FormatEntries(entries) ==
    IF entries = <<>> THEN <<>>
    ELSE LET parts == SplitN2(entries[1], <<"=">>)
             rest == FormatEntries(Tail(entries))
         IN  IF Len(parts) = 2
             THEN <<(<<"*", "*">> \o TrimSpace(parts[1]) \o <<"*", "*", ":", " ">>
                        \o TrimSpace(parts[2]))>> \o rest
             ELSE rest

\* a variant that removes one enclosing pair of braces and nothing else
cleanVarsOnePair(buildVars) ==
    IF Len(buildVars) >= 2 /\ buildVars[1] = "{" /\ buildVars[Len(buildVars)] = "}"
    THEN SubSeq(buildVars, 2, Len(buildVars) - 1)
    ELSE buildVars

\* cleanVars := strings.Trim(buildVars, "{}")
cleanVars(buildVars) == Trim(buildVars, {"{", "}"})

formatBuildVars(buildVars) ==
    IF buildVars = <<>> THEN <<>>
    ELSE IF cleanVars(buildVars) = <<>> THEN <<>>
    ELSE Join(FormatEntries(Split(cleanVars(buildVars), <<",", " ">>)), <<"\n">>)

\* a variant that adds the field whenever the raw build variables are not empty
convertToDiscordPayloadFlatRawVars(jenkins) ==
    LET color == getEventColor(jenkins.event)
        timestamp == FormatNow
        buildVarsFormatted == formatBuildVars(jenkins.buildVars)
        fields == <<
            [name |-> "Build", value |-> jenkins.buildName, inline |-> TRUE],
            [name |-> "Status", value |-> getEventText(jenkins.event), inline |-> TRUE],
            [name |-> "Project", value |-> jenkins.projectName, inline |-> TRUE] >>
        fields2 == IF jenkins.buildVars # <<>>
                   THEN Append(fields, [name |-> "Build Variables",
                                        value |-> buildVarsFormatted, inline |-> FALSE])
                   ELSE fields
        embed == [title |-> <<jenkins.projectName, " - ", jenkins.buildName>>,
                  description |-> <<"Build ", jenkins.event>>,
                  url |-> jenkins.buildUrl,
                  color |-> color,
                  fields |-> fields2,
                  timestamp |-> timestamp,
                  footer |-> [text |-> "Jenkins CI/CD"]]
    IN  [content |-> "", embeds |-> <<embed>>]

convertToDiscordPayloadFlat(jenkins) ==
    LET color == getEventColor(jenkins.event)
        timestamp == FormatNow   \* time.Now().Format(time.RFC3339)
        buildVarsFormatted == formatBuildVars(jenkins.buildVars)
        fields == <<
            [name |-> "Build", value |-> jenkins.buildName, inline |-> TRUE],
            [name |-> "Status", value |-> getEventText(jenkins.event), inline |-> TRUE],
            [name |-> "Project", value |-> jenkins.projectName, inline |-> TRUE] >>
        \* Add build variables if available
        fields2 == IF buildVarsFormatted # <<>>
                   THEN Append(fields, [name |-> "Build Variables",
                                        value |-> buildVarsFormatted, inline |-> FALSE])
                   ELSE fields
        embed == [title |-> <<jenkins.projectName, " - ", jenkins.buildName>>,
                  description |-> <<"Build ", jenkins.event>>,
                  url |-> jenkins.buildUrl,
                  color |-> color,
                  fields |-> fields2,
                  timestamp |-> timestamp,
                  footer |-> [text |-> "Jenkins CI/CD"]]
    IN  [content |-> "", embeds |-> <<embed>>]

(***************************************************************************)
(* Calls of the translator's functions on inputs drawn from bounded sets.  *)
(* trace holds the calls made: the function, its argument, what it         *)
(* returned and the time of the call.  The specifications of a single      *)
(* function make one call per behaviour.                                   *)
(***************************************************************************)
TranslatorEnvironments ==
    [DISCORD_WEBHOOK_URL : {ValidURL}, JENKINS_URL : {""}, PORT : {<<>>}, TZ : Zones]

TranslatorInit ==
    /\ mainPc = "getenv"
    /\ env \in TranslatorEnvironments
    /\ port = <<>>
    /\ handler = Nil
    /\ routes = {}
    /\ listening = FALSE
    /\ reqs = [r \in Requests |-> IdleRequest]
    /\ outbound = <<>>
    /\ now = 0
    /\ fpTieUp \in BOOLEAN
    /\ trace = <<>>

\* inbound events of the nested variant
Results == {"", "SUCCESS", "FAILURE", "UNSTABLE", "ABORTED", "success", "NOT_BUILT"}
Statuses == {"", "STARTED", "COMPLETED", "FINALIZED", "SUCCESS"}
Causes == {"", "Started by user admin"}

EmptyEvent ==
    [name |-> "", url |-> "", displayName |-> "",
     build |-> [fullDisplayName |-> "", number |-> 0, timestamp |-> 0, result |-> "",
                duration |-> Int64(0), url |-> "", cause |-> "", phase |-> "",
                status |-> ""]]

NestedEvents ==
    { [base EXCEPT !.build.result = res, !.build.status = st, !.build.cause = cause] :
        base \in {EmptyEvent, SampleEvent}, res \in Results, st \in Statuses,
        cause \in Causes }

CallConvert(e) ==
    /\ trace = <<>>
    /\ trace' = <<[fn |-> "convertToDiscordPayload", arg |-> e,
                   ret |-> convertToDiscordPayload(e), at |-> now]>>
    /\ UNCHANGED <<mainPc, env, port, handler, routes, listening, reqs, outbound, now,
                   fpTieUp>>

TranslateNext == \E e \in NestedEvents : CallConvert(e)

SpecTranslate == TranslatorInit /\ [][TranslateNext]_vars

\* durations in milliseconds: a grid of small values either side of zero, values
\* around the minute and the hour, and values around the largest duration whose
\* nanoseconds fit an int64 (9223372036854 ms)
MaxGrid == 90
GridStep == 50

Durations ==
    {Int64(k * GridStep) : k \in -10..MaxGrid}
        \cup {Int64(n) : n \in {-1, 1, 49, 51, 5000, 59949, 59950, 59999, 60000, 60001,
                                90000, 125000, 3599999, 3600000, 3600001, 86400000,
                                -60000, -3600000, 2147483647}}
        \cup {Int64Of(9, 223372, 36854), Int64Of(9, 223372, 36855),
              Int64Of(18, 446744, 73710), Int64Of(9223372, 36854, 775807),
              Neg64(Int64Of(9, 223372, 36854)), Neg64(Int64Of(9, 223372, 36855))}

CallFormatDuration(d) ==
    /\ trace = <<>>
    /\ trace' = <<[fn |-> "formatDuration", arg |-> d, ret |-> formatDuration(d),
                   at |-> now]>>
    /\ UNCHANGED <<mainPc, env, port, handler, routes, listening, reqs, outbound, now,
                   fpTieUp>>

DurationNext == \E d \in Durations : CallFormatDuration(d)

SpecDuration == TranslatorInit /\ [][DurationNext]_vars

\* build-variable strings: every string over a small alphabet up to a length, and
\* the documented examples
MaxVarsLen == 4

VarsAlphabet == {"{", "}", "a", "=", ",", " "}

RECURSIVE StringsUpTo(_)
StringsUpTo(n) ==
    IF n = 0 THEN {<<>>}
    ELSE LET shorter == StringsUpTo(n - 1)
         IN  shorter \cup {Append(s, c) : s \in shorter, c \in VarsAlphabet}

VarsExamples ==
    { <<"{", "a", "=", "1", ",", " ", "b", "=", "2", "}">>,
      <<"n", "o", "v", "a", "l", "i", "d", "p", "a", "i", "r", "s">>,
      <<"a", "=", "1", ",", " ", "b", "a", "d", ",", " ", "c", "=", "3">>,
      <<"{", "{", "a", "=", "1", "}", "}">>,
      <<"{", "a", "=", "{", "x", "}", "}">>,
      <<"{", "k", "=", "a", "=", "b", ",", "c", "=", " ", "d", " ", "}">>,
      <<"{", "k", "=", "a", "=", "b", ",", " ", "c", "=", " ", "d", " ", "}">>,
      <<"a", "=", "x", "\n", "y", ",", " ", "b", "=", "2">>,
      <<"a", "=", "1", "\n", ",", " ", "b">>,
      <<"{", "k", "=", "a", "=", "b", ",", " ", "b", "a", "d", ",", " ",
        "c", "=", " ", "x", "\n", "y", " ", "}">> }

VarsInputs == StringsUpTo(MaxVarsLen) \cup VarsExamples

CallFormatBuildVars(s) ==
    /\ trace = <<>>
    /\ trace' = <<[fn |-> "formatBuildVars", arg |-> s, clean |-> cleanVars(s),
                   ret |-> formatBuildVars(s), at |-> now]>>
    /\ UNCHANGED <<mainPc, env, port, handler, routes, listening, reqs, outbound, now,
                   fpTieUp>>

VarsNext == \E s \in VarsInputs : CallFormatBuildVars(s)

SpecVars == TranslatorInit /\ [][VarsNext]_vars

\* repeated calls of Convert, of both variants, as the clock advances
MaxCalls == 4
MaxClock == 2

FlatEvent ==
    [buildName |-> "#42", buildUrl |-> "job/my-project/42/",
     buildVars |-> <<"{", "a", "=", "1", "}">>, event |-> "success",
     projectName |-> "my-project"]

FlatEvents == {FlatEvent, [FlatEvent EXCEPT !.event = "started", !.buildVars = <<>>]}

RepeatedEvents == {SampleEvent, StartedEvent}

Tick ==
    /\ now < MaxClock
    /\ now' = now + 1
    /\ UNCHANGED <<mainPc, env, port, handler, routes, listening, reqs, outbound,
                   fpTieUp, trace>>

ConvertNested(e) ==
    /\ Len(trace) < MaxCalls
    /\ trace' = Append(trace, [fn |-> "convertToDiscordPayload", arg |-> e,
                               ret |-> convertToDiscordPayload(e), at |-> now])
    /\ UNCHANGED <<mainPc, env, port, handler, routes, listening, reqs, outbound, now,
                   fpTieUp>>

ConvertFlat(e) ==
    /\ Len(trace) < MaxCalls
    /\ trace' = Append(trace, [fn |-> "convertToDiscordPayloadFlat", arg |-> e,
                               ret |-> convertToDiscordPayloadFlat(e), at |-> now])
    /\ UNCHANGED <<mainPc, env, port, handler, routes, listening, reqs, outbound, now,
                   fpTieUp>>

RepeatNext ==
    \/ Tick
    \/ \E e \in RepeatedEvents : ConvertNested(e)
    \/ \E e \in FlatEvents : ConvertFlat(e)

SpecRepeat == TranslatorInit /\ [][RepeatNext]_vars

\* single calls of the flat converter, over events and build-variables strings
MaxFlatVarsLen == 2

EventNames == {"success", "failed", "started", "deployed"}

FlatCardEvents ==
    {[FlatEvent EXCEPT !.event = ev, !.buildVars = bv] :
        ev \in EventNames, bv \in StringsUpTo(MaxFlatVarsLen) \cup VarsExamples}

CallConvertFlat(e) ==
    /\ trace = <<>>
    /\ trace' = <<[fn |-> "convertToDiscordPayloadFlat", arg |-> e,
                   ret |-> convertToDiscordPayloadFlat(e), at |-> now]>>
    /\ UNCHANGED <<mainPc, env, port, handler, routes, listening, reqs, outbound, now,
                   fpTieUp>>

FlatNext == \E e \in FlatCardEvents : CallConvertFlat(e)

SpecFlat == TranslatorInit /\ [][FlatNext]_vars

(***************************************************************************)
(* Properties of the server (specification Spec).                          *)
(***************************************************************************)
\* the POSTs request r has handed to client.Do
PostsBy(r) == {i \in DOMAIN outbound : outbound[i].by = r}

Delivered(r) ==
    /\ PostsBy(r) # {}
    /\ reqs[r].outcome # Nil
    /\ reqs[r].outcome.kind = "response"
    /\ reqs[r].outcome.status >= 200
    /\ reqs[r].outcome.status < 300

\* C1: every /webhook/jenkins request is answered by exactly one of three fixed
\* responses, chosen by the outcome of the pipeline: 400 "Invalid payload" iff the
\* body does not deserialize; 200 "success" iff it does and the outbound POST
\* completed with a status in [200,300); 500 "Failed to send to Discord" in every
\* other case.  No response exists before the handler is done, and the body is one
\* of the three literals, never the error text.
C1_ResponseByOutcome ==
    \A r \in Requests :
        LET q == reqs[r]
        IN  /\ q.pc # "done" => q.response = NoResponse
            /\ q.pc = "done" =>
                /\ q.response \in
                      { [status |-> 400, body |-> [error |-> "Invalid payload"]],
                        [status |-> 200, body |-> [status |-> "success"]],
                        [status |-> 500, body |-> [error |-> "Failed to send to Discord"]] }
                /\ q.response.status = 400 <=> ~q.body.decodes
                /\ q.response.status = 200 <=> (q.body.decodes /\ Delivered(r))
                /\ q.response.status = 500 <=> (q.body.decodes /\ ~Delivered(r))

\* C1 witness: a delivery that Discord answered with 300 was reported as a 500, while
\* another request's delivery, answered with 299, was reported as a 200
C1_Witness ==
    \E r, t \in Requests :
        /\ reqs[r].pc = "done" /\ reqs[r].outcome # Nil
        /\ reqs[r].outcome = [kind |-> "response", status |-> 300]
        /\ reqs[r].response.status = 500
        /\ reqs[t].pc = "done" /\ reqs[t].outcome # Nil
        /\ reqs[t].outcome = [kind |-> "response", status |-> 299]
        /\ reqs[t].response.status = 200

\* C2 as claimed: no POST when deserialization fails, exactly one POST for every
\* other request, and the response only after that attempt has finished
C2_ExactlyOnePost ==
    \A r \in Requests :
        LET q == reqs[r]
        IN  /\ Cardinality(PostsBy(r)) <= 1
            /\ (q.pc = "done" /\ ~q.body.decodes) => PostsBy(r) = {}
            /\ (q.pc = "done" /\ q.body.decodes) => Cardinality(PostsBy(r)) = 1
            /\ q.response # NoResponse /\ PostsBy(r) # {} => q.outcome # Nil

\* C2 as amended: at most one POST per request; none when deserialization fails or
\* when the request to the destination URL cannot be built (the URL does not parse:
\* the handler answers 500 without calling the client); exactly one otherwise, never
\* repeated after a failure; the response only after that attempt has finished.
C2_AtMostOnePost ==
    \A r \in Requests :
        LET q == reqs[r]
        IN  /\ Cardinality(PostsBy(r)) <= 1
            /\ q.pc = "idle" => PostsBy(r) = {}
            /\ (q.pc # "idle" /\ ~q.body.decodes) => PostsBy(r) = {}
            /\ (q.pc # "idle" /\ q.body.decodes) =>
                  (Cardinality(PostsBy(r)) = 1 <=> handler.discordURL # MalformedURL)
            /\ q.response # NoResponse /\ PostsBy(r) # {} => q.outcome # Nil
            /\ q.response # NoResponse => q.pc = "done"

\* C2 witness: a delivery failed, the caller has its 500, and the POST was made once
C2_Witness ==
    \E r \in Requests :
        /\ reqs[r].pc = "done"
        /\ reqs[r].outcome # Nil
        /\ reqs[r].outcome.kind = "error"
        /\ reqs[r].response.status = 500
        /\ Cardinality(PostsBy(r)) = 1

\* what each request sent is the translation of its own payload, to the configured
\* URL, and its response follows from its own outcome
OwnPayloadOwnOutcome ==
    /\ \A i \in DOMAIN outbound :
          LET o == outbound[i]
          IN  /\ o.req.body = Marshal(convertToDiscordPayload(reqs[o.by].payload))
              /\ o.req.url = env.DISCORD_WEBHOOK_URL
              /\ reqs[o.by].discordPayload = convertToDiscordPayload(reqs[o.by].payload)
    /\ \A r \in Requests :
          (reqs[r].pc = "done" /\ PostsBy(r) # {}) =>
              (reqs[r].response.status = 200 <=> Delivered(r))

\* a step touches one request at most, rewrites no POST already made, and leaves the
\* handler's fields as NewWebhookHandler set them
StepTouchesOneRequest ==
    /\ handler # Nil => handler' = handler
    /\ \A r, t \in Requests : (reqs'[r] # reqs[r] /\ t # r) => reqs'[t] = reqs[t]
    /\ Len(outbound') >= Len(outbound)
    /\ SubSeq(outbound', 1, Len(outbound)) = outbound
    /\ \A i \in DOMAIN outbound' \ DOMAIN outbound : reqs'[outbound'[i].by] # reqs[outbound'[i].by]

\* C8: under any interleaving of the handlers, requests do not interfere: the
\* handler's fields (client, destination URL, upstream URL) are never written after
\* construction; the payload a request sends is computed from its own inbound payload
\* only; its response reflects its own outbound call only; a step of one request
\* changes no other request's state.
C8_NoInterference == [](OwnPayloadOwnOutcome) /\ [][StepTouchesOneRequest]_vars

\* C8 witness: two requests with different payloads were in flight together; the
\* first delivery failed and the second succeeded, each answered accordingly
C8_Witness ==
    \E r, t \in Requests :
        /\ r # t
        /\ reqs[r].payload # reqs[t].payload
        /\ PostsBy(r) # {} /\ PostsBy(t) # {}
        /\ reqs[r].pc = "done" /\ reqs[r].response.status = 500
        /\ reqs[t].pc = "done" /\ reqs[t].response.status = 200

\* the text is a non-negative integer: digits, with an optional "+" (or "-" before
\* zeros only)
NonNegativeInteger(s) ==
    /\ s # <<>>
    /\ \/ \A i \in 1..Len(s) : s[i] \in Digits
       \/ Len(s) > 1 /\ s[1] = "+" /\ \A i \in 2..Len(s) : s[i] \in Digits
       \/ Len(s) > 1 /\ s[1] = "-" /\ \A i \in 2..Len(s) : s[i] = "0"

BadConfiguration ==
    \/ env.DISCORD_WEBHOOK_URL = ""
    \/ env.PORT # <<>> /\ ~NonNegativeInteger(env.PORT)

MainNext == MainGetenv \/ MainPort \/ MainSetup \/ \E bound \in BOOLEAN : MainStart(bound)

\* C9: with the destination URL absent, or a port that is present but is not a
\* non-negative integer, the listener is never bound, no request is ever handled and
\* main can only end in termination; an absent port is 8080; the listener is bound,
\* and requests are handled, only after both checks have passed and the routes are
\* registered.
C9_StartupOrdering ==
    /\ BadConfiguration =>
          /\ ~listening
          /\ mainPc # "serving"
          /\ \A r \in Requests : reqs[r].pc = "idle"
          /\ outbound = <<>>
          /\ ~ENABLED MainNext => mainPc = "exited"
    /\ (env.PORT = <<>> /\ mainPc \in {"setup", "start", "serving"}) =>
          port = <<"8", "0", "8", "0">>
    /\ listening =>
          /\ env.DISCORD_WEBHOOK_URL # ""
          /\ env.PORT = <<>> \/ NonNegativeInteger(env.PORT)
          /\ routes = Routes
          /\ handler # Nil
    /\ (\E r \in Requests : reqs[r].pc # "idle") => listening

\* C9 witness: PORT is "-1"; the process has terminated without binding the listener
C9_Witness ==
    /\ env.PORT = <<"-", "1">>
    /\ env.DISCORD_WEBHOOK_URL # ""
    /\ mainPc = "exited"
    /\ ~listening

(***************************************************************************)
(* Properties of the nested translator (specification SpecTranslate).      *)
(***************************************************************************)
ConvertCalls == {i \in DOMAIN trace : trace[i].fn = "convertToDiscordPayload"}

CardOf(i) == trace[i].ret.embeds[1]

\* the Classify table of the nested variant: a result, when present, decides the
\* row; an unrecognized result is shown as it came, on gray
ClassifyRow(result, status) ==
    CASE result = "SUCCESS" -> [color |-> 65280, label |-> ":white_check_mark: Success"]
      [] result = "FAILURE" -> [color |-> 16711680, label |-> ":x: Failure"]
      [] result = "UNSTABLE" -> [color |-> 16753920, label |-> ":warning: Unstable"]
      [] result = "ABORTED" -> [color |-> 8421504, label |-> ":octagonal_sign: Aborted"]
      [] result # "" /\ result \notin {"SUCCESS", "FAILURE", "UNSTABLE", "ABORTED"} ->
            [color |-> 8421504, label |-> result]
      [] result = "" /\ status = "STARTED" ->
            [color |-> 39423, label |-> ":arrows_counterclockwise: Started"]
      [] result = "" /\ status = "COMPLETED" ->
            [color |-> 65280, label |-> ":white_check_mark: Completed"]
      [] OTHER -> [color |-> 8421504, label |-> status]

\* C3: for every non-empty result other than SUCCESS, FAILURE, UNSTABLE, ABORTED,
\* whatever the status, the card is gray (0x808080) and the Status label is the raw
\* result
C3_UnrecognizedResultGray ==
    \A i \in ConvertCalls :
        LET b == trace[i].arg.build
        IN  (b.result # "" /\ b.result \notin {"SUCCESS", "FAILURE", "UNSTABLE", "ABORTED"})
                => /\ CardOf(i).color = 8421504
                   /\ CardOf(i).fields[2].value = b.result

\* C4: the classification table, row by row (exact, case-sensitive match), and the
\* card's color and its Status label always come from the same row of the table
C4_ClassificationTable ==
    \A i \in ConvertCalls :
        LET b == trace[i].arg.build
            got == [color |-> CardOf(i).color, label |-> CardOf(i).fields[2].value]
        IN  /\ b.result = "SUCCESS" =>
                  got = [color |-> 65280, label |-> ":white_check_mark: Success"]
            /\ b.result = "FAILURE" => got = [color |-> 16711680, label |-> ":x: Failure"]
            /\ b.result = "UNSTABLE" =>
                  got = [color |-> 16753920, label |-> ":warning: Unstable"]
            /\ b.result = "ABORTED" =>
                  got = [color |-> 8421504, label |-> ":octagonal_sign: Aborted"]
            /\ (b.result = "" /\ b.status = "STARTED") =>
                  got = [color |-> 39423, label |-> ":arrows_counterclockwise: Started"]
            /\ (b.result = "" /\ b.status = "COMPLETED") =>
                  got = [color |-> 65280, label |-> ":white_check_mark: Completed"]
            /\ (b.result = "" /\ b.status \notin {"STARTED", "COMPLETED"}) =>
                  got = [color |-> 8421504, label |-> b.status]
            /\ got = ClassifyRow(b.result, b.status)

\* the rows of C4 that the code does implement: every row for a recognized or an
\* empty result
ClassificationRowsHold ==
    \A i \in ConvertCalls :
        LET b == trace[i].arg.build
        IN  b.result \in {"", "SUCCESS", "FAILURE", "UNSTABLE", "ABORTED"} =>
                [color |-> CardOf(i).color, label |-> CardOf(i).fields[2].value]
                    = ClassifyRow(b.result, b.status)

\* C6: Convert yields exactly one card for any event; its fields are Build Number
\* ("#" + number), Status, Duration, Phase (the raw phase), all inline and in this
\* order, followed by a non-inline Cause field with the raw cause iff the cause is
\* not empty; so there are 4 or 5 fields, by the cause alone; the footer is
\* "Jenkins CI/CD".
C6_CardShape ==
    \A i \in ConvertCalls :
        LET b == trace[i].arg.build
            f == CardOf(i).fields
        IN  /\ Len(trace[i].ret.embeds) = 1
            /\ Len(f) = IF b.cause = "" THEN 4 ELSE 5
            /\ f[1] = [name |-> "Build Number", value |-> <<"#", b.number>>, inline |-> TRUE]
            /\ f[2].name = "Status" /\ f[2].inline
            /\ f[3].name = "Duration" /\ f[3].inline
            /\ f[4] = [name |-> "Phase", value |-> b.phase, inline |-> TRUE]
            /\ b.cause # "" => f[5] = [name |-> "Cause", value |-> b.cause, inline |-> FALSE]
            /\ CardOf(i).footer = [text |-> "Jenkins CI/CD"]

\* C6 witness: an event with every field empty or zero but the cause was converted
\* to a card of five fields
C6_Witness ==
    \E i \in ConvertCalls :
        /\ trace[i].arg = [EmptyEvent EXCEPT !.build.cause = "Started by user admin"]
        /\ Len(CardOf(i).fields) = 5

(***************************************************************************)
(* Properties of formatDuration (specification SpecDuration).              *)
(***************************************************************************)
DurationCalls == {i \in DOMAIN trace : trace[i].fn = "formatDuration"}

\* the int64 is small enough to be an integer of the model
FitsInt(x) == LET m == Mag(x) IN m[3] = 0 /\ m[4] = 0 /\ m[2] < Limb \div 2

ToInt(x) ==
    LET m == Mag(x)
        v == m[2] * Limb + m[1]
    IN  IF IsNeg(x) THEN -v ELSE v

\* text of the form [-]digits.digit followed by one unit letter
IsOneDecimalWithUnit(t) ==
    LET body == IF t # <<>> /\ t[1] = "-" THEN Tail(t) ELSE t
        n == Len(body)
    IN  /\ n >= 4
        /\ body[n] \in {"h", "m", "s"}
        /\ body[n - 1] \in Digits
        /\ body[n - 2] = "."
        /\ \A k \in 1..(n - 3) : body[k] \in Digits

\* the unit the claim gives a non-zero ms: by the thresholds 3600000 and 60000
ClaimedUnit(x) ==
    IF IsNeg(x) THEN "s"
    ELSE IF ~FitsInt(x) THEN "h"
    ELSE IF ToInt(x) >= 3600000 THEN "h"
    ELSE IF ToInt(x) >= 60000 THEN "m"
    ELSE "s"

UnitMillis(u) == CASE u = "h" -> 3600000 [] u = "m" -> 60000 [] OTHER -> 1000

\* the tenths written in the text, as an integer (text of at most 9 digits)
TenthsWritten(t) ==
    LET body == IF t[1] = "-" THEN Tail(t) ELSE t
        n == Len(body)
    IN  DecimalValue(SubSeq(body, 1, n - 3) \o <<body[n - 1]>>)

\* the text is ms / unit rounded to one decimal: within half a tenth of the quotient,
\* and negative only for a negative ms
IsQuotientRounded(t, ms, u) ==
    LET tenths == TenthsWritten(t)
        m == IF ms < 0 THEN -ms ELSE ms
        delta == tenths * (UnitMillis(u) \div 10) - m
    IN  /\ 2 * (IF delta < 0 THEN -delta ELSE delta) <= UnitMillis(u) \div 10
        /\ t[1] = "-" => ms < 0

MaxChecked == 100000000

\* C5: FormatDuration(ms) is "N/A" exactly when ms = 0; for every other ms it is one
\* number with one decimal place and one unit suffix, 'h' if ms >= 3600000, else 'm'
\* if ms >= 60000, else 's', the number being ms over the unit rounded to one
\* decimal (compared for |ms| up to MaxChecked); 90000 -> "1.5m", 3600000 -> "1.0h",
\* 5000 -> "5.0s", 125000 -> "2.1m".
C5_FormatDuration ==
    \A i \in DurationCalls :
        LET ms == trace[i].arg
            t == trace[i].ret
        IN  /\ t = <<"N", "/", "A">> <=> IsZero(ms)
            /\ ~IsZero(ms) =>
                  /\ IsOneDecimalWithUnit(t)
                  /\ t[Len(t)] = ClaimedUnit(ms)
                  /\ (FitsInt(ms) /\ ToInt(ms) <= MaxChecked /\ ToInt(ms) >= -MaxChecked)
                        => IsQuotientRounded(t, ToInt(ms), ClaimedUnit(ms))
            /\ ms = Int64(90000) => t = <<"1", ".", "5", "m">>
            /\ ms = Int64(3600000) => t = <<"1", ".", "0", "h">>
            /\ ms = Int64(5000) => t = <<"5", ".", "0", "s">>
            /\ ms = Int64(125000) => t = <<"2", ".", "1", "m">>

\* ms * 10^6 ns is representable in an int64: |ms| <= 9223372036854
NanosecondsFit(x) ==
    LET m == Mag(x)
        top == DivSmall(DivSmall(DivSmall(m, 10000).q, 10000).q, 10000).q
    IN  \/ top[2] = 0 /\ top[3] = 0 /\ top[4] = 0 /\ top[1] < 9
        \/ m \in {Int64Of(9, 0, 0), Int64Of(9, 223372, 36854)}
        \/ /\ top = <<9, 0, 0, 0>>
           /\ LET low == DivSmall(DivSmall(m, 1000).q, 1000)
              IN  \/ low.q[1] < 9223
                  \/ low.q[1] = 9223 /\ low.r < 372

\* what C5 says, for the durations whose nanoseconds fit an int64
C5_WithoutOverflow ==
    \A i \in DurationCalls :
        LET ms == trace[i].arg
            t == trace[i].ret
        IN  NanosecondsFit(ms) =>
              /\ t = <<"N", "/", "A">> <=> IsZero(ms)
              /\ ~IsZero(ms) =>
                    /\ IsOneDecimalWithUnit(t)
                    /\ t[Len(t)] = ClaimedUnit(ms)
                    /\ (FitsInt(ms) /\ ToInt(ms) <= MaxChecked /\ ToInt(ms) >= -MaxChecked)
                          => IsQuotientRounded(t, ToInt(ms), ClaimedUnit(ms))

\* a formatDuration call at the whole-hour boundary happened
C5_InRangeCases ==
    \E i \in DurationCalls :
        /\ trace[i].arg = Int64(3600000)
        /\ trace[i].ret = <<"1", ".", "0", "h">>

(***************************************************************************)
(* Properties of repeated conversions (specification SpecRepeat).          *)
(***************************************************************************)
NestedCalls == {i \in DOMAIN trace : trace[i].fn = "convertToDiscordPayload"}
FlatCalls == {i \in DOMAIN trace : trace[i].fn = "convertToDiscordPayloadFlat"}

WithoutTimestamp(payload) ==
    [payload EXCEPT !.embeds = <<[payload.embeds[1] EXCEPT !.timestamp = Nil]>>]

\* C7 as stated: two calls of Convert with the same inbound event, made at different
\* times and in any order relative to other calls, return identical notification
\* records (title, description, link, color, fields and timestamp), in the nested
\* and in the flat variant.
C7_SameEventSameCard ==
    /\ \A i, j \in NestedCalls : trace[i].arg = trace[j].arg => trace[i].ret = trace[j].ret
    /\ \A i, j \in FlatCalls : trace[i].arg = trace[j].arg => trace[i].ret = trace[j].ret

\* C7 as the code has it: the nested variant returns identical records for the same
\* event whenever it is called; the flat variant returns records identical in
\* everything but the timestamp, which is the time of the call.
C7_SameEventSameCardButFlatStamp ==
    /\ \A i, j \in NestedCalls : trace[i].arg = trace[j].arg => trace[i].ret = trace[j].ret
    /\ \A i, j \in FlatCalls :
          trace[i].arg = trace[j].arg
              => WithoutTimestamp(trace[i].ret) = WithoutTimestamp(trace[j].ret)
    /\ \A i \in FlatCalls :
          trace[i].ret.embeds[1].timestamp = [unix |-> trace[i].at, zone |-> env.TZ]

C7_Witness ==
    /\ \E i, j \in NestedCalls :
          /\ i < j
          /\ trace[i].arg = trace[j].arg
          /\ trace[i].at < trace[j].at
          /\ trace[i].ret = trace[j].ret
    /\ \E i, j \in FlatCalls :
          /\ trace[i].arg = trace[j].arg
          /\ trace[i].at < trace[j].at
          /\ trace[i].ret # trace[j].ret

(***************************************************************************)
(* Properties of the build-variables parser (specification SpecVars).      *)
(***************************************************************************)
VarsCalls == {i \in DOMAIN trace : trace[i].fn = "formatBuildVars"}

Braces == {"{", "}"}

EnclosedInBraces(s) == Len(s) >= 2 /\ s[1] = "{" /\ s[Len(s)] = "}"

\* C10 as stated: at most one leading '{' and one trailing '}' are removed, and only
\* when both are present at the very ends of the input; every other brace is kept.
C10_OnePairStripped ==
    \A i \in VarsCalls :
        LET raw == trace[i].arg
        IN  trace[i].clean = IF EnclosedInBraces(raw)
                             THEN SubSeq(raw, 2, Len(raw) - 1)
                             ELSE raw

\* C10 as the code has it: every '{' and '}' at the start and at the end of the input is
\* removed, of either kind at either end, however many there are and whether or not
\* the other end has one; the braces inside are kept.
C10_AllEndBracesStripped ==
    \A i \in VarsCalls :
        LET raw == trace[i].arg
            clean == trace[i].clean
        IN  /\ \E a \in 0..Len(raw) : \E b \in a..Len(raw) :
                  /\ clean = SubSeq(raw, a + 1, b)
                  /\ \A k \in 1..a : raw[k] \in Braces
                  /\ \A k \in (b + 1)..Len(raw) : raw[k] \in Braces
            /\ clean # <<>> => clean[1] \notin Braces /\ clean[Len(clean)] \notin Braces
            /\ raw = <<"{", "{", "a", "=", "1", "}", "}">>
                  => trace[i].ret = <<"*", "*", "a", "*", "*", ":", " ", "1">>
            /\ raw = <<"{", "a", "=", "{", "x", "}", "}">>
                  => trace[i].ret = <<"*", "*", "a", "*", "*", ":", " ", "{", "x">>

C10_Witness ==
    \E i \in VarsCalls :
        /\ trace[i].arg = <<"{", "{", "a", "=", "1", "}", "}">>
        /\ trace[i].clean = <<"a", "=", "1">>

(***************************************************************************)
(* Properties of the entries of the build-variables parser (SpecVars).     *)
(***************************************************************************)
\* the positions where the separator ", " starts
SeparatorsOf(s) == {i \in 1..(Len(s) - 1) : s[i] = "," /\ s[i + 1] = " "}

\* the n-th separator position of s, in increasing order
NthSeparator(s, n) ==
    CHOOSE p \in SeparatorsOf(s) : Cardinality({q \in SeparatorsOf(s) : q < p}) = n - 1

\* the pieces of s between its separators, in order
EntriesOf(s) ==
    LET k == Cardinality(SeparatorsOf(s))
    IN  [n \in 1..(k + 1) |->
            SubSeq(s,
                   IF n = 1 THEN 1 ELSE NthSeparator(s, n - 1) + 2,
                   IF n = k + 1 THEN Len(s) ELSE NthSeparator(s, n) - 1)]

HasEquals(e) == \E i \in 1..Len(e) : e[i] = "="

FirstEquals(e) ==
    CHOOSE i \in 1..Len(e) : e[i] = "=" /\ \A j \in 1..(i - 1) : e[j] # "="

\* s without the white space at its two ends
Trimmed(s) ==
    LET solid == {i \in 1..Len(s) : s[i] \notin Space}
    IN  IF solid = {} THEN <<>>
        ELSE SubSeq(s, CHOOSE i \in solid : \A j \in solid : i <= j,
                       CHOOSE i \in solid : \A j \in solid : j <= i)

KeyOf(e) == Trimmed(SubSeq(e, 1, FirstEquals(e) - 1))
ValueOf(e) == Trimmed(SubSeq(e, FirstEquals(e) + 1, Len(e)))

Rendered(e) == <<"*", "*">> \o KeyOf(e) \o <<"*", "*", ":", " ">> \o ValueOf(e)

\* the text the claim gives the stripped input: its entries that have an "=", rendered,
\* in their order, with one line break between two of them
RECURSIVE JoinedByNewlines(_)
JoinedByNewlines(list) ==
    IF list = <<>> THEN <<>>
    ELSE IF Len(list) = 1 THEN Rendered(list[1])
    ELSE Rendered(list[1]) \o <<"\n">> \o JoinedByNewlines(Tail(list))

Surviving(s) == SelectSeq(EntriesOf(s), HasEquals)

\* the number of lines of a text: none for the empty text
LineCount(t) ==
    IF t = <<>> THEN 0 ELSE 1 + Cardinality({i \in 1..Len(t) : t[i] = "\n"})

HasBreak(t) == \E i \in 1..Len(t) : t[i] = "\n"

\* C11: after brace stripping the input is split on ", "; each entry is split on its
\* first "=" only; an entry with no "=" is dropped without affecting the others; the
\* others are rendered "**key**: value" with key and value trimmed, in input order,
\* joined by newlines; the output has exactly as many lines as there are entries with
\* an "=" and is empty when there are none ("{}" and "novalidpairs" give ""); the
\* function returns a text for every input.
C11_EntriesRenderedOnePerLine ==
    \A i \in VarsCalls :
        LET raw == trace[i].arg
            kept == Surviving(trace[i].clean)
            out == trace[i].ret
        IN  /\ out \in Seq(STRING)
            /\ out = JoinedByNewlines(kept)
            /\ LineCount(out) = Len(kept)
            /\ kept = <<>> => out = <<>>
            /\ raw \in {<<"{", "}">>,
                        <<"n", "o", "v", "a", "l", "i", "d", "p", "a", "i", "r", "s">>}
                  => out = <<>>
            /\ raw = <<"a", "=", "1", ",", " ", "b", "a", "d", ",", " ", "c", "=", "3">>
                  => out = <<"*", "*", "a", "*", "*", ":", " ", "1", "\n",
                             "*", "*", "c", "*", "*", ":", " ", "3">>

\* C11 as the code has it: the same, but the output has as many lines as there are
\* entries with an "=" only when no key or value has a line break inside it; a line
\* break inside a key or a value is kept and starts one more line.
C11_EntriesRenderedInOrder ==
    \A i \in VarsCalls :
        LET raw == trace[i].arg
            kept == Surviving(trace[i].clean)
            out == trace[i].ret
        IN  /\ out \in Seq(STRING)
            /\ out = JoinedByNewlines(kept)
            /\ (\A n \in DOMAIN kept : ~HasBreak(Rendered(kept[n])))
                  => LineCount(out) = Len(kept)
            /\ LineCount(out) >= Len(kept)
            /\ kept = <<>> => out = <<>>
            /\ raw \in {<<"{", "}">>,
                        <<"n", "o", "v", "a", "l", "i", "d", "p", "a", "i", "r", "s">>}
                  => out = <<>>
            /\ raw = <<"a", "=", "1", ",", " ", "b", "a", "d", ",", " ", "c", "=", "3">>
                  => out = <<"*", "*", "a", "*", "*", ":", " ", "1", "\n",
                             "*", "*", "c", "*", "*", ":", " ", "3">>

\* an entry without "=" was dropped between two kept ones, a value kept its second "=",
\* a value was trimmed and kept the line break inside it
C11_Witness ==
    \E i \in VarsCalls :
        /\ trace[i].arg = <<"{", "k", "=", "a", "=", "b", ",", " ", "b", "a", "d", ",", " ",
                            "c", "=", " ", "x", "\n", "y", " ", "}">>
        /\ trace[i].ret = <<"*", "*", "k", "*", "*", ":", " ", "a", "=", "b", "\n",
                            "*", "*", "c", "*", "*", ":", " ", "x", "\n", "y">>
        /\ Len(Surviving(trace[i].clean)) = 2
        /\ LineCount(trace[i].ret) = 3

(***************************************************************************)
(* Properties of the card of the flat variant (specification SpecFlat).    *)
(***************************************************************************)
FlatFieldsOf(i) == trace[i].ret.embeds[1].fields

\* the first three fields of the card: Build, Status, Project, all inline
FirstThreeFields(i) ==
    LET e == trace[i].arg
        f == FlatFieldsOf(i)
    IN  /\ Len(f) >= 3
        /\ f[1] = [name |-> "Build", value |-> e.buildName, inline |-> TRUE]
        /\ f[2].name = "Status" /\ f[2].inline
        /\ f[3] = [name |-> "Project", value |-> e.projectName, inline |-> TRUE]

\* C12 as stated: the card has the fields Build, Status, Project in that order, and a
\* fourth, non-inline "Build Variables" field exactly when the raw build-variables
\* string is not empty; the field count is 3 or 4 by that alone.
C12_FourthFieldByRawVars ==
    \A i \in FlatCalls :
        LET raw == trace[i].arg.buildVars
            f == FlatFieldsOf(i)
        IN  /\ FirstThreeFields(i)
            /\ Len(f) = IF raw # <<>> THEN 4 ELSE 3
            /\ Len(f) = 4 => f[4].name = "Build Variables" /\ ~f[4].inline

\* C12 as the code has it: the fourth field is there exactly when the parsed text is
\* not empty, that is, when the string without the braces at its ends has an entry
\* with an "="; its value is that text.
C12_FourthFieldByParsedVars ==
    \A i \in FlatCalls :
        LET raw == trace[i].arg.buildVars
            kept == Surviving(cleanVars(raw))
            f == FlatFieldsOf(i)
        IN  /\ FirstThreeFields(i)
            /\ Len(f) = IF kept # <<>> THEN 4 ELSE 3
            /\ Len(f) = 4 =>
                  f[4] = [name |-> "Build Variables", value |-> JoinedByNewlines(kept),
                          inline |-> FALSE]

\* a card made from a build-variables string that is not empty but has no entry
C12_Witness ==
    \E i \in FlatCalls :
        /\ trace[i].arg.buildVars = <<"{", "}">>
        /\ Len(FlatFieldsOf(i)) = 3

=============================================================================
